---- MODULE Spec2Model ----
(***************************************************************************)
(* A state-machine model of the wasmtime-http host (bin/wasmtime-http.rs)  *)
(* and of the harness of tests/integration.rs: the CLI run that builds a   *)
(* fuel-metered asynchronous store, links the WASI shim and the            *)
(* wasi_experimental_http capability, instantiates a module, resolves one  *)
(* export and drives it to completion across out-of-fuel yields.           *)
(***************************************************************************)
EXTENDS Integers, Sequences, FiniteSets, TLC

\* ------------------------------------------------------------------ bounds
\* Longest guest function body (in guest operations) that Init enumerates.
MaxOps == 3
\* Largest value of -c/--concurrency that Init enumerates (0..MaxConcurrency).
MaxConcurrency == 1
\* The count of fuel injections already made is tracked exactly up to this
\* value and saturates there (the code's budget of injections is U64_MAX).
MaxInjections == 3

\* ------------------------------------------------------- program constants
\* store.add_fuel(10000)
FUEL_GRANT == 10000
\* store.out_of_fuel_async_yield(u64::MAX, 10000): fuel injected per yield
FUEL_TO_INJECT == 10000
\* store.out_of_fuel_async_yield(u64::MAX, 10000): number of injections.
\* u64::MAX is written as the largest integer TLC represents; the model only
\* compares the count of injections made against it.
INJECTION_COUNT == 2147483647

Min(a, b) == IF a <= b THEN a ELSE b

\* The destinations a guest may name.  "h1" and "h2" stand for two distinct
\* origins such as https://api.brigade.sh and https://postman-echo.com.
Hosts == {"h1", "h2"}

\* ------------------------------------------------------------ guest module
\* A guest function body is a finite sequence of operations:
\*   compute  cost units of fuel-metered computation,
\*   loop     computation that never ends,
\*   req      an outbound request to host (opens a response handle),
\*   close    closes one open response handle,
\*   trap     a guest-level runtime fault (unreachable, out of bounds, ...).
Op(kind, cost, host) == [kind |-> kind, cost |-> cost, host |-> host]

\* Amounts of computation: exactly one grant (the fuel runs out as the work
\* ends) and two and a half grants (the call needs several injections and
\* leaves half a grant).
WorkSizes == {FUEL_GRANT, 2 * FUEL_GRANT + FUEL_GRANT \div 2}

GuestOps ==
    {Op("compute", c, "") : c \in WorkSizes}
        \cup {Op("req", 0, h) : h \in Hosts}
        \cup {Op("close", 0, ""), Op("trap", 0, ""), Op("loop", 1, "")}

SeqsUpTo(S, n) == UNION {[1..k -> S] : k \in 0..n}

Programs == SeqsUpTo(GuestOps, MaxOps)

\* Option<T>
Some(v) == [some |-> TRUE, val |-> v]
NoneOf(default) == [some |-> FALSE, val |-> default]

\* ------------------------------------------------------------ CLI options
\* An -e/--env entry is a string, modelled as a sequence of characters.
EnvEntries == {<<"k", "=", "v">>, <<"k", "v">>, <<"k", "=", "v", "=", "w">>, <<"=">>}

\* Mutant of FirstEq: the position of the last '='.
FirstEq_Last(s) ==
    IF \E i \in 1..Len(s) : s[i] = "="
    THEN CHOOSE i \in 1..Len(s) :
            s[i] = "=" /\ \A j \in (i + 1)..Len(s) : s[j] # "="
    ELSE 0

\* s.splitn(2, '='): the position of the first '=', 0 when there is none.
FirstEq(s) ==
    IF \E i \in 1..Len(s) : s[i] = "="
    THEN CHOOSE i \in 1..Len(s) : s[i] = "=" /\ \A j \in 1..(i - 1) : s[j] # "="
    ELSE 0

\* s.splitn(2, '=').collect(): at most two parts, split at the first '='.
SplitN2(s) ==
    IF FirstEq(s) = 0 THEN <<s>>
    ELSE <<SubSeq(s, 1, FirstEq(s) - 1), SubSeq(s, FirstEq(s) + 1, Len(s))>>

\* parse_env_var: Err unless the entry splits into exactly two parts.
parse_env_var(s) ==
    IF Len(SplitN2(s)) # 2
    THEN [ok |-> FALSE, name |-> <<>>, value |-> <<>>]
    ELSE [ok |-> TRUE, name |-> SplitN2(s)[1], value |-> SplitN2(s)[2]]

\* The namespaces the two capabilities register in the linker.
WASI_NS == "wasi_snapshot_preview1"
HTTP_NS == "wasi_experimental_http"

\* The import sections a module file may carry: the two linked namespaces,
\* or also a namespace nobody links.
ImportSets == {{WASI_NS, HTTP_NS}, {WASI_NS, HTTP_NS, "env"}}

\* The one function the modelled module exports, and a name it does not.
ExportName == "get"
InvokeNames == {ExportName, "nosuch"}

VARIABLES
    opt,        \* Opt: the parsed command line (raw before from_args)
    threads,    \* executor threads of the tokio runtime
    pc,         \* position of the main future in main/create_instance/invoke_func
    stages,     \* lifecycle stages entered so far, oldest first
    failure,    \* the error that ended the run, "none" while there is none
    exitCode,   \* process exit status, -1 while running
    config,     \* wasmtime::Config
    wasi_env,   \* environment of the WasiCtx
    linker,     \* namespaces defined in the Linker
    fuel,       \* Store: remaining fuel
    out_of_gas, \* Store: behaviour when fuel runs out
    injected,   \* Store: fuel injections made (saturates at MaxInjections)
    http,       \* HttpCtx, once created
    module,     \* the compiled Module, once loaded
    instance,   \* whether the Instance exists
    func,       \* the resolved Func: its type and body
    guest,      \* state of the call_async future
    ip,         \* index of the guest operation being executed
    need,       \* fuel the current compute operation still needs
    inflight,   \* open outbound requests (response handles)
    burst,      \* fuel consumed since control last returned to the scheduler
    hostReady,  \* a host-side task (a network response to deliver) is ready
    values,     \* invoke_func: the Vals pushed by the coercion loop
    stdout      \* the lines printed on standard output

vars == <<opt, threads, pc, stages, failure, exitCode, config, wasi_env, linker,
          fuel, out_of_gas, injected, http, module, instance, func, guest, ip,
          need, inflight, burst, hostReady, values, stdout>>

\* --------------------------------------------------------- value coercion
\* ValType of a parameter; "ExternRef" stands for the kinds outside the four
\* numeric ones.
ValTypes == {"I32", "I64", "F32", "F64", "ExternRef"}

\* Argument tokens, as sequences of characters: small integers with and
\* without sign or leading zeros, a decimal literal, text that is no number,
\* one past i32::MAX and one past u32::MAX.
Tokens ==
    {<<"5">>, <<"-", "1">>, <<"0", "7">>, <<"1", ".", "5">>, <<"x">>,
     <<"2", "1", "4", "7", "4", "8", "3", "6", "4", "8">>,
     <<"4", "2", "9", "4", "9", "6", "7", "2", "9", "6">>}

DigitChars == <<"0", "1", "2", "3", "4", "5", "6", "7", "8", "9">>
IsDigit(c) == \E d \in 1..10 : DigitChars[d] = c
DigitVal(c) == (CHOOSE d \in 1..10 : DigitChars[d] = c) - 1

\* A magnitude is a sequence of decimal digits without leading zeros (<<0>>
\* for zero): the widths of i64 and u64 are kept, whatever TLC's integers.
RECURSIVE StripZeros(_)
StripZeros(d) ==
    IF Len(d) > 1 /\ d[1] = 0 THEN StripZeros(Tail(d)) ELSE d

\* a <= b for magnitudes.
LeqMag(a, b) ==
    \/ Len(a) < Len(b)
    \/ /\ Len(a) = Len(b)
       /\ \/ a = b
          \/ \E i \in 1..Len(a) :
                /\ a[i] < b[i]
                /\ \A j \in 1..(i - 1) : a[j] = b[j]

I32_MAX == <<2, 1, 4, 7, 4, 8, 3, 6, 4, 7>>
I32_MIN_MAG == <<2, 1, 4, 7, 4, 8, 3, 6, 4, 8>>
I64_MAX == <<9, 2, 2, 3, 3, 7, 2, 0, 3, 6, 8, 5, 4, 7, 7, 5, 8, 0, 7>>
I64_MIN_MAG == <<9, 2, 2, 3, 3, 7, 2, 0, 3, 6, 8, 5, 4, 7, 7, 5, 8, 0, 8>>
U32_MAX == <<4, 2, 9, 4, 9, 6, 7, 2, 9, 5>>
U64_MAX == <<1, 8, 4, 4, 6, 7, 4, 4, 0, 7, 3, 7, 0, 9, 5, 5, 1, 6, 1, 5>>

NoNumber == [ok |-> FALSE, neg |-> FALSE, mag |-> <<0>>]

\* str::parse for an integer type: an optional sign ('-' only for a signed
\* type), then one or more decimal digits, within the type's range.
ParseInt(s, signed, maxPos, maxNegMag) ==
    LET hasSign == Len(s) > 0 /\ (s[1] = "+" \/ (signed /\ s[1] = "-"))
        neg == hasSign /\ s[1] = "-"
        body == IF hasSign THEN Tail(s) ELSE s
        mag == StripZeros([i \in 1..Len(body) |-> DigitVal(body[i])])
    IN IF Len(body) = 0 \/ \E i \in 1..Len(body) : ~IsDigit(body[i])
       THEN NoNumber
       ELSE IF ~LeqMag(mag, IF neg THEN maxNegMag ELSE maxPos)
       THEN NoNumber
       ELSE [ok |-> TRUE, neg |-> neg /\ mag # <<0>>, mag |-> mag]

\* invoke_func lines 121-124, val.parse()? for the payload of the Val of the
\* parameter's kind: i32 for Val::I32, i64 for Val::I64, and the bit pattern
\* u32 for Val::F32 and u64 for Val::F64.
ParseVal(ty, tok) ==
    CASE ty = "I32" -> ParseInt(tok, TRUE, I32_MAX, I32_MIN_MAG)
      [] ty = "I64" -> ParseInt(tok, TRUE, I64_MAX, I64_MIN_MAG)
      [] ty = "F32" -> ParseInt(tok, FALSE, U32_MAX, <<0>>)
      [] ty = "F64" -> ParseInt(tok, FALSE, U64_MAX, <<0>>)
      [] OTHER -> NoNumber

ParseOk(ty, tok) == ParseVal(ty, tok).ok

\* Val: a value tagged with its kind.
Val(ty, n) == [ty |-> ty, neg |-> n.neg, mag |-> n.mag]

\* invoke_func lines 111-127: walk the parameter types, taking one token per
\* parameter and pushing its Val.  The result is the first error met (or
\* "ok") and the values pushed until then.
RECURSIVE CoerceFrom(_, _, _, _)
CoerceFrom(params, args, i, pushed) ==
    IF i > Len(params) THEN [err |-> "ok", values |-> pushed]
    ELSE IF i > Len(args)
         THEN [err |-> "ArgumentCountMismatch", values |-> pushed]
    ELSE IF params[i] \notin {"I32", "I64", "F32", "F64"}
         THEN [err |-> "UnsupportedParameterType", values |-> pushed]
    ELSE IF ~ParseOk(params[i], args[i])
         THEN [err |-> "ArgumentParseError", values |-> pushed]
    ELSE CoerceFrom(params, args, i + 1,
                    Append(pushed, Val(params[i], ParseVal(params[i], args[i]))))

\* Mutant of Coerce: a missing token counts as "0".
Coerce_Padded(params, args) ==
    CoerceFrom(params, args \o [i \in 1..Len(params) |-> <<"0">>], 1, <<>>)

Coerce(params, args) == CoerceFrom(params, args, 1, <<>>)

\* invoke_func lines 132-139: the line println! writes for a result.
\* Integers print in decimal; a float prints the value of its bit pattern,
\* written here as the pattern in a wrapper; references print a placeholder.
Decimal(v) ==
    (IF v.neg THEN <<"-">> ELSE <<>>) \o [i \in 1..Len(v.mag) |-> DigitChars[v.mag[i] + 1]]

Render(v) ==
    CASE v.ty \in {"I32", "I64"} -> Decimal(v)
      [] v.ty = "F32" -> <<"f32::from_bits(">> \o Decimal(v) \o <<")">>
      [] v.ty = "F64" -> <<"f64::from_bits(">> \o Decimal(v) \o <<")">>
      [] v.ty = "ExternRef" -> <<"<externref>">>
      [] OTHER -> <<"<funcref>">>

\* ------------------------------------------------------------------- Init
\* The command lines Init enumerates.  Every combination of allow-list,
\* concurrency limit and function name is run without -e entries and without
\* module arguments; the -e entries are varied on one fixed command line.
\* The allow-lists: none, empty, one host, both hosts.
AllowLists == {NoneOf({}), Some({}), Some({"h1"}), Some(Hosts)}

\* Threads of the runtime that run the two tasks of the model (the guest call
\* and the capability's host-side task): one, which they share, or two, one
\* each.  More threads behave as two do.
ThreadCounts == {1, 2}
Limits == {NoneOf(0)} \cup {Some(n) : n \in 0..MaxConcurrency}

\* The module files on disk: the one of the integration tests, and one whose
\* export takes parameters and returns results.
HTTP_TESTS == "simple_wasi_http_tests.wasm"
TYPED == "typed.wasm"

CommandLine(env, allowed, limit, name, args) ==
    [module |-> HTTP_TESTS, env_args |-> env, vars |-> <<>>,
     allowed_hosts |-> allowed, max_concurrency |-> limit, invoke |-> name,
     module_args |-> args]

CommandLines ==
    {CommandLine(<<>>, a, l, n, <<>>) :
        a \in AllowLists, l \in Limits, n \in InvokeNames}
        \cup {CommandLine(<<e>>, Some({"h1"}), NoneOf(0), ExportName, <<>>) :
                e \in EnvEntries}

\* The exported function a module file may define: no parameters and any
\* body, or some parameters and an empty body.
Signatures == {<<>>, <<"I32">>, <<"ExternRef">>}
FuncDefs ==
    {[params |-> <<>>, results |-> <<>>, body |-> b] : b \in Programs}
        \cup {[params |-> p, results |-> <<>>, body |-> <<>>] : p \in Signatures}

\* The command lines with module arguments or several -e entries, all on the
\* module file whose export is typed.
MaxParams == 2
MaxArgs == 2
MaxEnvLen == 3
ParamLists == SeqsUpTo(ValTypes, MaxParams)
ArgLists == SeqsUpTo(Tokens, MaxArgs)
EnvStrings == SeqsUpTo({"k", "=", "v"}, MaxEnvLen)
EnvLists == {<<e>> : e \in EnvStrings}
                \cup {<<d, e>> : d \in EnvEntries, e \in EnvEntries}

TypedLine(env, name, args) ==
    [CommandLine(env, Some({"h1"}), NoneOf(0), name, args)
        EXCEPT !.module = TYPED]

CliCommandLines ==
    {TypedLine(<<>>, n, a) : n \in InvokeNames, a \in ArgLists}
        \cup {TypedLine(e, ExportName, <<>>) : e \in EnvLists}

\* The values the typed export may return, and the bodies it may have: it
\* returns at once, traps, or makes a request and computes past the fuel
\* grant.
ResultLists ==
    {<<>>,
     <<[ty |-> "I32", neg |-> FALSE, mag |-> <<5>>]>>,
     <<[ty |-> "I64", neg |-> TRUE, mag |-> <<1>>],
       [ty |-> "F32", neg |-> FALSE, mag |-> <<5>>]>>}
TypedBodies ==
    {<<>>,
     <<Op("trap", 0, "h1")>>,
     <<Op("req", 0, "h1"), Op("compute", 2 * FUEL_GRANT, "h1"),
       Op("close", 0, "h1")>>}
TypedFuncDefs ==
    {[params |-> p, results |-> r, body |-> b] :
        p \in ParamLists, r \in ResultLists, b \in TypedBodies}

\* Module::from_file, line 96: the export the file at a path may define.
ModuleDefs(path) == IF path = TYPED THEN TypedFuncDefs ELSE FuncDefs

Init ==
    /\ opt \in CommandLines
    /\ threads \in ThreadCounts
    /\ pc = "from_args"
    /\ stages = <<"Uninstantiated">>
    /\ failure = "none"
    /\ exitCode = -1
    /\ config = [async_support |-> FALSE, consume_fuel |-> FALSE]
    /\ wasi_env = <<>>
    /\ linker = {}
    /\ fuel = 0
    /\ out_of_gas = [inject |-> FALSE, count |-> 0, amount |-> 0]
    /\ injected = 0
    /\ http = [created |-> FALSE, allowed |-> NoneOf({}), max |-> NoneOf(0),
               inits |-> 0]
    /\ module = [loaded |-> FALSE, imports |-> {}]
    /\ instance = FALSE
    /\ func = [resolved |-> FALSE, params |-> <<>>, results |-> <<>>,
               body |-> <<>>]
    /\ guest = "idle"
    /\ ip = 0
    /\ need = 0
    /\ inflight = 0
    /\ burst = 0
    /\ hostReady = FALSE
    /\ values = <<>>
    /\ stdout = <<>>

Stage == stages[Len(stages)]

\* Mutant of Fail: the error is swallowed and the process ends with status 0.
Fail_ExitZero(kind, code) ==
    /\ pc' = "exit"
    /\ failure' = kind
    /\ exitCode' = 0
    /\ stages' = Append(stages, "Failed")

\* The error leaves main: the process ends with a non-zero status and no
\* later statement runs.
Fail(kind, code) ==
    /\ pc' = "exit"
    /\ failure' = kind
    /\ exitCode' = code
    /\ stages' = Append(stages, "Failed")

\* Status of a process whose main returned Err, and of one that panicked.
EXIT_ERR == 1
EXIT_PANIC == 101

\* ------------------------------------------------------------------- main
\* Variables of the guest call and of the scheduler, untouched by setup.
callVars == <<guest, ip, need, inflight, burst, hostReady, injected, stdout>>

\* main line 51, Opt::from_args: every -e entry goes through parse_env_var;
\* one Err is a usage error and the process exits before create_instance.
FromArgs ==
    /\ pc = "from_args"
    /\ IF \E i \in 1..Len(opt.env_args) : ~parse_env_var(opt.env_args[i]).ok
       THEN /\ Fail("CliParseError", EXIT_ERR)
            /\ opt' = opt
       ELSE /\ opt' = [opt EXCEPT !.vars =
                          [i \in 1..Len(opt.env_args) |->
                              <<parse_env_var(opt.env_args[i]).name,
                                parse_env_var(opt.env_args[i]).value>>]]
            /\ pc' = "config"
            /\ UNCHANGED <<stages, failure, exitCode>>
    /\ UNCHANGED <<threads, config, wasi_env, linker, fuel, out_of_gas, http,
                   module, instance, func, callVars, values>>

\* WasiCtxBuilder::envs rejects a string with an interior NUL.
EnvsAccepted(pairs) ==
    \A i \in 1..Len(pairs) :
        /\ \A j \in 1..Len(pairs[i][1]) : pairs[i][1][j] # "\\0"
        /\ \A j \in 1..Len(pairs[i][2]) : pairs[i][2][j] # "\\0"

\* create_instance lines 71-84: Config (async_support, consume_fuel), Engine,
\* Linker, and the WasiCtx with the parsed variables.
BuildContext ==
    /\ pc = "config"
    /\ config' = [async_support |-> TRUE, consume_fuel |-> TRUE]
    /\ linker' = {}
    /\ IF EnvsAccepted(opt.vars)
       THEN /\ wasi_env' = opt.vars
            /\ pc' = "store"
            /\ UNCHANGED <<stages, failure, exitCode>>
       ELSE /\ Fail("WasiCtxError", EXIT_ERR)
            /\ wasi_env' = wasi_env
    /\ UNCHANGED <<opt, threads, fuel, out_of_gas, http, module, instance,
                   func, callVars, values>>

\* Mutant of AddFuel: the amount is added twice.
AddFuel_Double(remaining, amount) == remaining + amount + amount

\* Store::add_fuel: the fuel after adding amount.
AddFuel(remaining, amount) == remaining + amount

\* Mutant of InjectFuel: a budget of one injection whatever count is asked.
InjectFuel_Once(injection_count, fuel_to_inject) ==
    [inject |-> TRUE, count |-> 1, amount |-> fuel_to_inject]

\* The behaviour out_of_fuel_async_yield(injection_count, fuel_to_inject)
\* configures.
InjectFuel(injection_count, fuel_to_inject) ==
    [inject |-> TRUE, count |-> injection_count, amount |-> fuel_to_inject]

\* Mutant of NewStore: the fuel is granted but the yield policy is not set.
NewStore_NoYield ==
    /\ pc = "store"
    /\ fuel' = AddFuel(0, FUEL_GRANT)
    /\ pc' = "wasi_link"
    /\ UNCHANGED <<stages, failure, exitCode, out_of_gas>>
    /\ UNCHANGED <<opt, threads, config, wasi_env, linker, http, module,
                   instance, func, callVars, values>>

\* create_instance lines 86-88: Store::new, add_fuel(10000)? (an error when
\* the engine does not consume fuel), out_of_fuel_async_yield(u64::MAX, 10000).
NewStore ==
    /\ pc = "store"
    /\ IF config.consume_fuel
       THEN /\ fuel' = AddFuel(0, FUEL_GRANT)
            /\ out_of_gas' = InjectFuel(INJECTION_COUNT, FUEL_TO_INJECT)
            /\ pc' = "wasi_link"
            /\ UNCHANGED <<stages, failure, exitCode>>
       ELSE /\ Fail("AddFuelError", EXIT_ERR)
            /\ UNCHANGED <<fuel, out_of_gas>>
    /\ UNCHANGED <<opt, threads, config, wasi_env, linker, http, module,
                   instance, func, callVars, values>>

\* create_instance line 90: wasmtime_wasi::tokio::add_to_linker; defining a
\* name twice is an error.
AddWasiToLinker ==
    /\ pc = "wasi_link"
    /\ IF WASI_NS \in linker
       THEN /\ Fail("LinkError", EXIT_ERR)
            /\ linker' = linker
       ELSE /\ linker' = linker \cup {WASI_NS}
            /\ pc' = "http_new"
            /\ UNCHANGED <<stages, failure, exitCode>>
    /\ UNCHANGED <<opt, threads, config, wasi_env, fuel, out_of_gas, http,
                   module, instance, func, callVars, values>>

\* Mutants of HttpAllowedHosts: every host is passed as allowed; the
\* allow-list is dropped.
HttpAllowedHosts_AllowAll == Some(Hosts)
HttpAllowedHosts_Dropped == NoneOf({})

\* Mutant of HttpMaxConcurrency: the limit is dropped.
HttpMaxConcurrency_Dropped == NoneOf(0)

\* What create_instance hands to HttpCtx::new (line 93).
HttpAllowedHosts == opt.allowed_hosts
HttpMaxConcurrency == opt.max_concurrency

\* create_instance line 93: HttpCtx::new(allowed_hosts, max).await?; the
\* asynchronous initialisation may fail.
HttpCtxNew ==
    /\ pc = "http_new"
    /\ \E ok \in BOOLEAN :
        IF ok
        THEN /\ http' = [created |-> TRUE, allowed |-> HttpAllowedHosts,
                         max |-> HttpMaxConcurrency,
                         inits |-> http.inits + 1]
             /\ pc' = "http_link"
             /\ UNCHANGED <<stages, failure, exitCode>>
        ELSE /\ Fail("CapabilityInitError", EXIT_ERR)
             /\ http' = http
    /\ UNCHANGED <<opt, threads, config, wasi_env, linker, fuel, out_of_gas,
                   module, instance, func, callVars, values>>

\* create_instance line 94: http.add_to_linker(&mut linker)?.  With it the
\* import namespace is complete.
HttpAddToLinker ==
    /\ pc = "http_link"
    /\ IF HTTP_NS \in linker
       THEN /\ Fail("LinkError", EXIT_ERR)
            /\ linker' = linker
       ELSE /\ linker' = linker \cup {HTTP_NS}
            /\ pc' = "module"
            /\ stages' = Append(stages, "Linked")
            /\ UNCHANGED <<failure, exitCode>>
    /\ UNCHANGED <<opt, threads, config, wasi_env, fuel, out_of_gas, http,
                   module, instance, func, callVars, values>>

\* create_instance line 96: Module::from_file(store.engine(), filename)?; the
\* file may be missing or malformed, or compile to a module with some import
\* section.
ModuleFromFile ==
    /\ pc = "module"
    /\ \/ /\ Fail("LinkError", EXIT_ERR)
          /\ module' = module
       \/ /\ \E imports \in ImportSets :
                module' = [loaded |-> TRUE, imports |-> imports]
          /\ pc' = "instantiate"
          /\ UNCHANGED <<stages, failure, exitCode>>
    /\ UNCHANGED <<opt, threads, config, wasi_env, linker, fuel, out_of_gas,
                   http, instance, func, callVars, values>>

\* create_instance line 97: linker.instantiate(&mut store, &module)?; every
\* import of the module must be defined in the linker.
Instantiate ==
    /\ pc = "instantiate"
    /\ IF module.imports \subseteq linker
       THEN /\ instance' = TRUE
            /\ pc' = "get_func"
            /\ stages' = Append(stages, "Instantiated")
            /\ UNCHANGED <<failure, exitCode>>
       ELSE /\ Fail("LinkError", EXIT_ERR)
            /\ instance' = instance
    /\ UNCHANGED <<opt, threads, config, wasi_env, linker, fuel, out_of_gas,
                   http, module, func, callVars, values>>

\* Mutant of Exported: any name resolves to the module's export.
Exported_AnyName(name) == TRUE

\* Instance::get_func is Some for the name of an exported function.
Exported(name) == name = ExportName

\* main lines 56-58: instance.get_func(&mut store, method) or panic
\* "cannot find function".  The export's definition is read from the module.
GetFunc ==
    /\ pc = "get_func"
    /\ IF Exported(opt.invoke)
       THEN /\ \E def \in ModuleDefs(opt.module) :
                 func' = [resolved |-> TRUE, params |-> def.params,
                          results |-> def.results, body |-> def.body]
            /\ pc' = "coerce"
            /\ stages' = Append(stages, "Resolved")
            /\ UNCHANGED <<failure, exitCode>>
       ELSE /\ Fail("ExportNotFound", EXIT_PANIC)
            /\ func' = func
    /\ UNCHANGED <<opt, threads, config, wasi_env, linker, fuel, out_of_gas,
                   http, module, instance, callVars, values>>

\* Mutant of CoerceArgs: the error of the coercion is dropped and the call is
\* made with the values pushed so far.
CoerceArgs_CallAnyway ==
    /\ pc = "coerce"
    /\ values' = Coerce(func.params, opt.module_args).values
    /\ pc' = "call_async"
    /\ UNCHANGED <<stages, failure, exitCode>>
    /\ UNCHANGED <<opt, threads, config, wasi_env, linker, fuel, out_of_gas,
                   http, module, instance, func, callVars>>

\* invoke_func lines 109-127: coerce the argument tokens; an error returns
\* before call_async.
CoerceArgs ==
    /\ pc = "coerce"
    /\ LET c == Coerce(func.params, opt.module_args)
       IN /\ values' = c.values
          /\ IF c.err = "ok"
             THEN /\ pc' = "call_async"
                  /\ UNCHANGED <<stages, failure, exitCode>>
             ELSE Fail(c.err, EXIT_ERR)
    /\ UNCHANGED <<opt, threads, config, wasi_env, linker, fuel, out_of_gas,
                   http, module, instance, func, callVars>>

\* ------------------------------------------------------------- guest call
\* Variables the guest call leaves alone.
setupVars == <<opt, threads, config, wasi_env, linker, out_of_gas, http,
               module, instance, func, values, stdout>>

\* Fuel the operation at index i needs when the guest reaches it.
Enter(i) == IF i <= Len(func.body) THEN func.body[i].cost ELSE 0

CurOp == func.body[ip]
AtOp(kind) ==
    /\ pc = "await_call"
    /\ guest = "running"
    /\ ip <= Len(func.body)
    /\ CurOp.kind = kind

\* Mutant of CallAsync: the call is started on the instance before the
\* export has been resolved and the arguments coerced.
CallAsync_Unresolved ==
    /\ pc = "get_func"
    /\ pc' = "await_call"
    /\ stages' = Append(stages, "Executing")
    /\ guest' = "running"
    /\ ip' = 1
    /\ need' = Enter(1)
    /\ burst' = 0
    /\ UNCHANGED <<setupVars, failure, exitCode, fuel, inflight, hostReady,
                   injected>>

\* invoke_func line 129: the buffer handed to call_async for the results.
ResultsBuffer == <<>>

\* invoke_func line 130, func.call_async(&mut store, &values, &mut results):
\* Func::call_async refuses a results slice whose length is not the number
\* of results of the function's type, before any guest code runs; otherwise
\* the call starts on the thread that polls the main future.
CallAsync ==
    /\ pc = "call_async"
    /\ IF Len(ResultsBuffer) # Len(func.results)
       THEN /\ Fail("ResultCountMismatch", EXIT_ERR)
            /\ UNCHANGED <<guest, ip, need, burst>>
       ELSE /\ pc' = "await_call"
            /\ stages' = Append(stages, "Executing")
            /\ guest' = "running"
            /\ ip' = 1
            /\ need' = Enter(1)
            /\ burst' = 0
            /\ UNCHANGED <<failure, exitCode>>
    /\ UNCHANGED <<setupVars, fuel, inflight, hostReady, injected>>

\* Mutant of Burn: the operation's whole need is burnt whatever is left.
Burn_Unchecked(left, needed, endless) ==
    IF endless THEN left ELSE needed

\* Fuel one uninterrupted run of the guest burns: all that is left for a
\* loop, otherwise what the operation still needs, as far as the fuel goes.
Burn(left, needed, endless) ==
    IF endless THEN left ELSE Min(left, needed)

\* The guest computes until the operation ends or the fuel is gone.
GuestCompute ==
    /\ \/ AtOp("compute")
       \/ AtOp("loop")
    /\ need > 0
    /\ fuel > 0
    /\ LET b == Burn(fuel, need, CurOp.kind = "loop")
           rest == IF CurOp.kind = "loop" THEN need ELSE need - b
       IN /\ fuel' = fuel - b
          /\ burst' = burst + b
          /\ IF rest = 0
             THEN /\ ip' = ip + 1
                  /\ need' = Enter(ip + 1)
             ELSE /\ ip' = ip
                  /\ need' = rest
    /\ UNCHANGED <<setupVars, pc, stages, failure, exitCode, guest, inflight,
                   hostReady, injected>>

\* The store's out-of-gas handler has injections left.
CanInject == out_of_gas.inject /\ injected < out_of_gas.count

\* Mutant of OutOfGasBehavior: the store's default, a trap.
OutOfGasBehavior_Trap == "trap"

\* What the out-of-gas handler does to the call: "yield" suspends it and
\* hands the thread back, "trap" ends it.
OutOfGasBehavior == IF CanInject THEN "yield" ELSE "trap"

\* The fuel is gone and the guest has more to compute: the store's
\* out-of-gas handler runs.  With InjectFuel and injections left it counts
\* one injection and yields to the executor; otherwise the call traps.
OutOfGas ==
    /\ \/ AtOp("compute")
       \/ AtOp("loop")
    /\ need > 0
    /\ fuel = 0
    /\ IF OutOfGasBehavior = "yield"
       THEN /\ guest' = "yielded"
            /\ injected' = Min(injected + 1, MaxInjections)
            /\ burst' = 0
            /\ UNCHANGED <<pc, stages, failure, exitCode>>
       ELSE /\ Fail("OutOfFuel", EXIT_ERR)
            /\ guest' = "done"
            /\ UNCHANGED <<injected, burst>>
    /\ UNCHANGED <<setupVars, fuel, ip, need, inflight, hostReady>>

\* The executor polls the suspended call again: the handler adds
\* fuel_to_inject and the computation goes on where it stopped.
Resume ==
    /\ pc = "await_call"
    /\ guest = "yielded"
    /\ fuel' = AddFuel(fuel, out_of_gas.amount)
    /\ guest' = "running"
    /\ UNCHANGED <<setupVars, pc, stages, failure, exitCode, ip, need,
                   inflight, burst, hostReady, injected>>

\* The network capability's policy for a request to host h.
HostAllowed(h) == http.allowed.some /\ h \in http.allowed.val
AtLimit == http.max.some /\ inflight >= http.max.val

\* The guest issues an outbound request.  A destination that is not allowed
\* and a request beyond the concurrency limit are errors of the capability
\* that end the call; otherwise the request is in flight and the guest waits
\* for the response, releasing its thread.
GuestRequest ==
    /\ AtOp("req")
    /\ IF ~HostAllowed(CurOp.host)
       THEN /\ Fail("DestinationNotAllowed", EXIT_ERR)
            /\ guest' = "done"
            /\ UNCHANGED <<inflight, hostReady, burst>>
       ELSE IF AtLimit
       THEN /\ Fail("TooManyRequests", EXIT_ERR)
            /\ guest' = "done"
            /\ UNCHANGED <<inflight, hostReady, burst>>
       ELSE /\ inflight' = inflight + 1
            /\ hostReady' = TRUE
            /\ guest' = "waiting"
            /\ burst' = 0
            /\ UNCHANGED <<pc, stages, failure, exitCode>>
    /\ UNCHANGED <<setupVars, fuel, ip, need, injected>>

\* The response has been delivered: the executor polls the call again and
\* the guest goes on after the request.
GuestWake ==
    /\ pc = "await_call"
    /\ guest = "woken"
    /\ guest' = "running"
    /\ ip' = ip + 1
    /\ need' = Enter(ip + 1)
    /\ UNCHANGED <<setupVars, pc, stages, failure, exitCode, fuel, inflight,
                   burst, hostReady, injected>>

\* The guest closes a response handle, which frees its slot.
GuestClose ==
    /\ AtOp("close")
    /\ inflight' = IF inflight > 0 THEN inflight - 1 ELSE 0
    /\ ip' = ip + 1
    /\ need' = Enter(ip + 1)
    /\ UNCHANGED <<setupVars, pc, stages, failure, exitCode, fuel, guest,
                   burst, hostReady, injected>>

\* A guest-level fault: call_async returns the trap and main returns it.
GuestTrap ==
    /\ AtOp("trap")
    /\ Fail("GuestTrap", EXIT_ERR)
    /\ guest' = "done"
    /\ UNCHANGED <<setupVars, fuel, ip, need, inflight, burst, hostReady,
                   injected>>

\* The function returns: call_async is Ok.
GuestReturn ==
    /\ pc = "await_call"
    /\ guest = "running"
    /\ ip > Len(func.body)
    /\ guest' = "done"
    /\ pc' = "print"
    /\ UNCHANGED <<setupVars, stages, failure, exitCode, fuel, ip, need,
                   inflight, burst, hostReady, injected>>

\* Mutant of PrintLines: a line is printed before the loop over the results.
PrintLines_Header(out, results) ==
    out \o <<<<"r", "e", "s", "u", "l", "t">>>>
        \o [i \in 1..Len(results) |-> Render(results[i])]

\* invoke_func lines 131-141: one println! per element of the results, in
\* their order.
PrintLines(out, results) ==
    out \o [i \in 1..Len(results) |-> Render(results[i])]

\* The results buffer after a call that returned Ok: the callee has written
\* the function's results into its slots.
ResultsAfterCall == [i \in 1..Len(ResultsBuffer) |-> func.results[i]]

\* invoke_func lines 131-143 and main line 62: the results are printed and
\* main returns Ok.
PrintResults ==
    /\ pc = "print"
    /\ pc' = "exit"
    /\ exitCode' = 0
    /\ stages' = Append(stages, "Completed")
    /\ stdout' = PrintLines(stdout, ResultsAfterCall)
    /\ UNCHANGED <<opt, threads, config, wasi_env, linker, out_of_gas, http,
                   module, instance, func, values, failure, fuel, guest, ip,
                   need, inflight, burst, hostReady, injected>>

\* -------------------------------------------------------------- scheduler
\* Mutant of FreeThread: the guest keeps its thread while it is suspended
\* for lack of fuel.
FreeThread_HeldAcrossYield ==
    threads > (IF guest \in {"running", "yielded"} THEN 1 ELSE 0)

\* A thread of the runtime is free for a host-side task: the guest holds one
\* thread while it runs and none while it is suspended.
FreeThread == threads > (IF guest = "running" THEN 1 ELSE 0)

\* An I/O event on an open request (more of a response arrives) makes the
\* capability's host-side task ready.
HostWake ==
    /\ http.created
    /\ inflight > 0
    /\ pc # "exit"
    /\ ~hostReady
    /\ hostReady' = TRUE
    /\ UNCHANGED <<setupVars, pc, stages, failure, exitCode, fuel, guest, ip,
                   need, inflight, burst, injected>>

\* The runtime runs the ready host-side task on a free thread; a guest that
\* waits for the response is woken.
HostRun ==
    /\ hostReady
    /\ pc # "exit"
    /\ FreeThread
    /\ hostReady' = FALSE
    /\ guest' = IF guest = "waiting" THEN "woken" ELSE guest
    /\ UNCHANGED <<setupVars, pc, stages, failure, exitCode, fuel, ip, need,
                   inflight, burst, injected>>

\* ------------------------------------------------------------------- Spec
Setup ==
    \/ FromArgs
    \/ BuildContext
    \/ NewStore
    \/ AddWasiToLinker
    \/ HttpCtxNew
    \/ HttpAddToLinker
    \/ ModuleFromFile
    \/ Instantiate

Invoke ==
    \/ GetFunc
    \/ CoerceArgs
    \/ CallAsync
    \/ PrintResults

Guest ==
    \/ GuestCompute
    \/ OutOfGas
    \/ Resume
    \/ GuestRequest
    \/ GuestWake
    \/ GuestClose
    \/ GuestTrap
    \/ GuestReturn

Main == Setup \/ Invoke \/ Guest

Next == Main \/ HostWake \/ HostRun

Spec == Init /\ [][Next]_vars

\* The runs on the typed module file, with module arguments and -e entries.
CliInit ==
    /\ opt \in CliCommandLines
    /\ threads \in ThreadCounts
    /\ pc = "from_args"
    /\ stages = <<"Uninstantiated">>
    /\ failure = "none"
    /\ exitCode = -1
    /\ config = [async_support |-> FALSE, consume_fuel |-> FALSE]
    /\ wasi_env = <<>>
    /\ linker = {}
    /\ fuel = 0
    /\ out_of_gas = [inject |-> FALSE, count |-> 0, amount |-> 0]
    /\ injected = 0
    /\ http = [created |-> FALSE, allowed |-> NoneOf({}), max |-> NoneOf(0),
               inits |-> 0]
    /\ module = [loaded |-> FALSE, imports |-> {}]
    /\ instance = FALSE
    /\ func = [resolved |-> FALSE, params |-> <<>>, results |-> <<>>,
               body |-> <<>>]
    /\ guest = "idle"
    /\ ip = 0
    /\ need = 0
    /\ inflight = 0
    /\ burst = 0
    /\ hostReady = FALSE
    /\ values = <<>>
    /\ stdout = <<>>

CliSpec == CliInit /\ [][Next]_vars

\* The main future is polled whenever it can make progress, and the
\* runtime's run queue is fair: a task that is ready again and again is run.
FairSpec == Spec /\ WF_vars(Main) /\ SF_vars(HostRun)

\* ----------------------------------------------------------------- claims
\* Kinds of operation in the resolved function's body, and the hosts it
\* requests.
BodyKinds == {func.body[i].kind : i \in 1..Len(func.body)}
Requested ==
    {func.body[i].host : i \in {j \in 1..Len(func.body) : func.body[j].kind = "req"}}

NoAllowList == ~opt.allowed_hosts.some \/ opt.allowed_hosts.val = {}

\* C1: with no allow-list, or an allow-list of zero entries, no outbound
\* request is ever in flight and an invocation whose function issues an
\* outbound request never reaches Completed.
C1_DeniedWithoutAllowList ==
    NoAllowList =>
        /\ inflight = 0
        /\ (Stage = "Completed" => "req" \notin BodyKinds)

\* C1 witness: a request was attempted without an allow-list and refused.
C1_Witness ==
    /\ NoAllowList
    /\ failure = "DestinationNotAllowed"
    /\ Stage = "Failed"

\* The guest only computes, requests listed destinations and closes
\* handles; the allow-list is not empty and no concurrency limit is set.
C2_Premise ==
    /\ func.resolved
    /\ func.params = <<>>
    /\ BodyKinds \subseteq {"compute", "req", "close"}
    /\ opt.allowed_hosts.some
    /\ opt.allowed_hosts.val # {}
    /\ Requested \subseteq opt.allowed_hosts.val
    /\ ~opt.max_concurrency.some

\* C2: with a non-empty allow-list that holds the destinations the guest
\* calls and no concurrency limit, the call never fails and, once started,
\* eventually reaches Completed.
C2_AllowedCompletes ==
    /\ [](C2_Premise /\ guest # "idle" => Stage # "Failed")
    /\ ((C2_Premise /\ Stage = "Executing") ~> (Stage = "Completed"))

\* C2 witness: such an invocation, with a request in its body, completed.
C2_Witness ==
    /\ C2_Premise
    /\ Requested = opt.allowed_hosts.val
    /\ Stage = "Completed"

\* C3: with max concurrency N the number of requests in flight is at most N
\* in every reachable state.
C3_InFlightBounded ==
    opt.max_concurrency.some => inflight <= opt.max_concurrency.val

\* C3 witness: N >= 1 requests are in flight and the guest is about to issue
\* one more.
C3_Witness ==
    /\ opt.max_concurrency.some
    /\ opt.max_concurrency.val >= 1
    /\ inflight = opt.max_concurrency.val
    /\ AtOp("req")
    /\ HostAllowed(CurOp.host)

\* C4 as stated: a request beyond the limit is never failed (it would be
\* blocked until a slot frees).
C4_BlockedNotFailed == failure # "TooManyRequests"

\* C4 as amended: a request to an allowed host issued while the configured
\* maximum is already in flight is not blocked; it fails, the invocation
\* moves to Failed and no further request is in flight.
C4_FailsAtLimit ==
    [][(/\ AtOp("req")
        /\ HostAllowed(CurOp.host)
        /\ opt.max_concurrency.some
        /\ inflight >= opt.max_concurrency.val
        /\ guest' # guest)
       => (/\ failure' = "TooManyRequests"
           /\ stages' = Append(stages, "Failed")
           /\ inflight' = inflight)]_vars

\* C4 witness: an invocation failed on the concurrency limit.
C4_Witness ==
    /\ failure = "TooManyRequests"
    /\ Stage = "Failed"
    /\ inflight = opt.max_concurrency.val

\* C5: the remaining fuel is never negative; it decreases only in a step of
\* the running guest, and it increases only at the initial grant and when
\* the executor resumes a call suspended for lack of fuel, never in a step
\* of the running guest.
C5_FuelCounter ==
    /\ [](fuel >= 0)
    /\ [][fuel' < fuel => (pc = "await_call" /\ guest = "running")]_vars
    /\ [][fuel' > fuel =>
            /\ guest # "running"
            /\ (pc = "store" \/ guest = "yielded")]_vars

\* C5 witness: fuel was replenished and partly consumed again.
C5_Witness ==
    /\ injected > 0
    /\ guest = "running"
    /\ 0 < fuel
    /\ fuel < FUEL_TO_INJECT

\* The guest has more to compute and no fuel.
Exhausted ==
    /\ pc = "await_call"
    /\ guest = "running"
    /\ need > 0
    /\ fuel = 0

\* C6: when the fuel is gone during a call the call is suspended, not
\* ended: the invocation stays Executing with its computation untouched;
\* the suspended call is then resumed with the fuel replenished to the
\* interval, at the same point; no invocation fails for lack of fuel.
C6_SuspendedNotTerminated ==
    /\ [][(Exhausted /\ guest' # guest) =>
            /\ guest' = "yielded"
            /\ Stage' = "Executing"
            /\ <<ip', need'>> = <<ip, need>>]_vars
    /\ [][(guest = "yielded" /\ guest' # guest) =>
            /\ guest' = "running"
            /\ fuel' = FUEL_TO_INJECT
            /\ Stage' = "Executing"
            /\ <<ip', need'>> = <<ip, need>>]_vars
    /\ [](failure # "OutOfFuel")
    /\ ((guest = "yielded") ~> (guest = "running"))

\* C6 witness: a call suspended for lack of fuel.
C6_Witness == guest = "yielded" /\ fuel = 0 /\ need > 0

\* C7: a call that only computes, whatever the amount, runs to Completed
\* across as many injections as it needs.
C7_UnboundedTotalFuel ==
    (/\ Stage = "Executing"
     /\ BodyKinds \subseteq {"compute"}) ~> (Stage = "Completed")

\* C7 witness: a call completed after more injections than the model counts.
C7_Witness ==
    /\ Stage = "Completed"
    /\ BodyKinds = {"compute"}
    /\ injected = MaxInjections

\* C8: the guest never consumes more than the interval between two returns
\* of control to the scheduler, and the remaining fuel never exceeds the
\* interval.
C8_BurstBounded ==
    /\ burst <= FUEL_TO_INJECT
    /\ fuel <= FUEL_TO_INJECT

\* C8 witness: after an injection the guest consumed a whole interval in
\* one burst.
C8_Witness ==
    /\ injected > 0
    /\ burst = FUEL_TO_INJECT
    /\ fuel = 0

\* C9: a host-side task that is ready while the guest call is under way is
\* eventually run (or the process ends), also when the guest never
\* terminates.
C9_HostTaskRuns ==
    (hostReady /\ pc = "await_call") ~> (~hostReady \/ pc = "exit")

\* C9 witness: on a single thread, a guest that loops forever holds the
\* thread after several injections while a host-side task is ready.
C9_Witness ==
    /\ threads = 1
    /\ AtOp("loop")
    /\ injected = MaxInjections
    /\ hostReady

\* The lifecycle in order.
Lifecycle ==
    <<"Uninstantiated", "Linked", "Instantiated", "Resolved", "Executing",
      "Completed">>

\* C10: the stages entered are a prefix of the lifecycle, or a prefix that
\* stops before Completed followed by Failed; the guest is called only with
\* an export resolved on an instantiated module; Completed comes only after
\* every earlier stage.
C10_LifecycleOrder ==
    /\ \/ /\ Len(stages) <= Len(Lifecycle)
          /\ stages = SubSeq(Lifecycle, 1, Len(stages))
       \/ /\ Len(stages) <= Len(Lifecycle)
          /\ Stage = "Failed"
          /\ SubSeq(stages, 1, Len(stages) - 1)
                = SubSeq(Lifecycle, 1, Len(stages) - 1)
    /\ guest # "idle" => (instance /\ func.resolved /\ module.loaded)
    /\ pc \in {"await_call", "print"} <=> Stage = "Executing"
    /\ Stage = "Completed" => stages = Lifecycle

\* C10 witness: a run that went through every stage.
C10_Witness == stages = Lifecycle /\ exitCode = 0

\* C11: every failure is terminal.  A run has failed exactly when an error
\* is recorded; it is then at its end with a non-zero exit status, the stage
\* Failed was entered once and Completed never, and no step follows: no later
\* stage is executed and none is retried.
C11_FailureTerminal ==
    /\ [](failure # "none" <=> Stage = "Failed")
    /\ [](Stage = "Failed" =>
            /\ pc = "exit"
            /\ exitCode \in {EXIT_ERR, EXIT_PANIC}
            /\ exitCode # 0
            /\ \A i \in 1..(Len(stages) - 1) :
                    stages[i] \notin {"Failed", "Completed"})
    /\ [][Stage = "Failed" => vars' = vars]_vars

\* A call that trapped with a request still open, the run at its end.
C11_Witness ==
    /\ Stage = "Failed"
    /\ failure = "GuestTrap"
    /\ inflight > 0
    /\ pc = "exit"

\* ------------------------------------------------ claims on the arguments
NumericKinds == {"I32", "I64", "F32", "F64"}

\* The coercion loop has run on the resolved function.
CoercionDone == func.resolved /\ pc # "coerce"

\* Position i has a token that its parameter accepts.
Accepted(i) ==
    /\ func.params[i] \in NumericKinds
    /\ ParseOk(func.params[i], opt.module_args[i])

TooFewArgs == func.resolved /\ Len(opt.module_args) < Len(func.params)
TooManyArgs == func.resolved /\ Len(opt.module_args) > Len(func.params)

C13_SurplusRejected ==
    (TooManyArgs /\ CoercionDone) =>
        (failure = "ArgumentCountMismatch" /\ guest = "idle")

\* Two tokens for a function of one parameter: the second token is ignored
\* and the function ran to completion on the value of the first.
C13_Witness ==
    /\ TooManyArgs
    /\ Len(func.params) = 1
    /\ Len(opt.module_args) = 2
    /\ Len(values) = 1
    /\ Stage = "Completed"

\* C14 as stated: for a signature over the four numeric kinds and a token
\* list of the same length whose tokens are numeric text of their kinds (an
\* integer in range for an integer kind, a decimal number for a float kind),
\* coercion succeeds with one value per parameter, in order, each tagged with
\* its parameter's kind.
C14_ParsableCoerces ==
    LET IsFloatLiteral(t) ==
            LET signed == Len(t) > 0 /\ t[1] \in {"+", "-"}
                body == IF signed THEN Tail(t) ELSE t
            IN /\ \A i \in 1..Len(body) : IsDigit(body[i]) \/ body[i] = "."
               /\ \E i \in 1..Len(body) : IsDigit(body[i])
               /\ Cardinality({i \in 1..Len(body) : body[i] = "."}) <= 1
        Parses(ty, t) ==
            IF ty \in {"F32", "F64"} THEN IsFloatLiteral(t) ELSE ParseOk(ty, t)
    IN (/\ CoercionDone
        /\ Len(opt.module_args) = Len(func.params)
        /\ \A i \in 1..Len(func.params) :
                /\ func.params[i] \in NumericKinds
                /\ Parses(func.params[i], opt.module_args[i]))
       => /\ failure \notin {"ArgumentParseError", "ArgumentCountMismatch",
                              "UnsupportedParameterType"}
          /\ Len(values) = Len(func.params)
          /\ \A i \in 1..Len(values) : values[i].ty = func.params[i]

\* The token 1.5 for a parameter of kind F32 is refused.
C14_Witness ==
    /\ func.resolved
    /\ func.params = <<"F32">>
    /\ opt.module_args = <<<<"1", ".", "5">>>>
    /\ failure = "ArgumentParseError"
    /\ values = <<>>

\* C15: when the instantiated module does not export the requested name the
\* run aborts at once with a panic, not with an error returned from main; no
\* argument has been coerced, no function resolved and no guest code called.
\* Nothing else panics.
C15_MissingExportAborts ==
    /\ opt.invoke # ExportName =>
        /\ ~func.resolved
        /\ values = <<>>
        /\ guest = "idle"
        /\ stdout = <<>>
        /\ Stage \notin {"Resolved", "Executing", "Completed"}
        /\ (instance /\ pc = "exit") => failure = "ExportNotFound"
    /\ failure = "ExportNotFound" =>
        /\ opt.invoke # ExportName
        /\ exitCode = EXIT_PANIC
        /\ pc = "exit"
        /\ stages = <<"Uninstantiated", "Linked", "Instantiated", "Failed">>
    /\ exitCode = EXIT_PANIC => failure = "ExportNotFound"

\* A run with two module arguments that panicked on the missing export.
C15_Witness ==
    /\ failure = "ExportNotFound"
    /\ exitCode = EXIT_PANIC
    /\ Len(opt.module_args) = 2
    /\ instance

\* --------------------------------------------------- claims on -e entries
HasEq(e) == \E i \in 1..Len(e) : e[i] = "="

\* C16: an -e entry without '=' is a usage error, raised when the command
\* line is parsed and before any engine, store or linker exists; it is the
\* only usage error.  An entry with at least one '=' is split at its first
\* '=' only: the name has no '=', the value is all that follows, and this
\* pair is what the WASI environment receives.
C16_EnvEntries ==
    /\ (\E i \in 1..Len(opt.env_args) : ~HasEq(opt.env_args[i])) =>
        \/ pc = "from_args"
        \/ /\ failure = "CliParseError"
           /\ pc = "exit"
           /\ exitCode = EXIT_ERR
           /\ stages = <<"Uninstantiated", "Failed">>
           /\ ~config.async_support /\ ~config.consume_fuel
           /\ linker = {} /\ fuel = 0 /\ ~out_of_gas.inject
           /\ wasi_env = <<>> /\ ~http.created
           /\ ~module.loaded /\ ~instance
    /\ failure = "CliParseError" =>
            \E i \in 1..Len(opt.env_args) : ~HasEq(opt.env_args[i])
    /\ ((\A i \in 1..Len(opt.env_args) : HasEq(opt.env_args[i]))
            /\ pc # "from_args") =>
        /\ Len(opt.vars) = Len(opt.env_args)
        /\ \A i \in 1..Len(opt.vars) :
                /\ opt.vars[i][1] \o <<"=">> \o opt.vars[i][2] = opt.env_args[i]
                /\ ~HasEq(opt.vars[i][1])
        /\ pc \notin {"from_args", "config"} => wasi_env = opt.vars

\* A completed run whose environment holds a value with an '=' inside.
C16_Witness ==
    /\ exitCode = 0
    /\ \E i \in 1..Len(wasi_env) :
            /\ HasEq(wasi_env[i][2])
            /\ wasi_env[i][1] \o <<"=">> \o wasi_env[i][2] = opt.env_args[i]

C18_SetupBeforeInstantiate ==
    /\ [](http.inits <= 1)
    /\ [](pc = "instantiate" => fuel = FUEL_GRANT)
    /\ []((instance \/ pc = "instantiate") =>
            /\ config.async_support /\ config.consume_fuel
            /\ out_of_gas.inject
            /\ out_of_gas.count = INJECTION_COUNT
            /\ out_of_gas.amount = FUEL_TO_INJECT
            /\ {WASI_NS, HTTP_NS} \subseteq linker
            /\ http.created
            /\ http.inits = 1)
    /\ [][(module.loaded \/ instance) =>
            (linker' = linker /\ http' = http /\ out_of_gas' = out_of_gas)]_vars
    /\ [](failure \in {"AddFuelError", "CapabilityInitError"} =>
            /\ ~module.loaded
            /\ ~instance
            /\ guest = "idle"
            /\ stages = <<"Uninstantiated", "Failed">>)

\* The module has just been instantiated on the complete setup.
C18_Witness ==
    /\ instance
    /\ Stage = "Instantiated"
    /\ http.inits = 1
    /\ linker = {WASI_NS, HTTP_NS}
    /\ fuel = FUEL_GRANT

=============================================================================
